---- MODULE Spec2Model ----
(***************************************************************************)
(* FGAccelerations (JSBSim): the per-tick evaluation of the rigid body's   *)
(* rate derivatives and the projected Gauss-Seidel contact resolver.       *)
(*                                                                         *)
(* Numbers.  The source computes in IEEE doubles.  Here a double is a      *)
(* binary fixed-point number: the integer x stands for x / Scale, and      *)
(* every product and quotient is rounded to the nearest unit, as a double  *)
(* operation rounds to the nearest representable value.  +infinity and     *)
(* -infinity (multiplier bounds of a one-sided contact) are the values     *)
(* Inf and -Inf, which lie beyond every finite value the model reaches.    *)
(* A vector is a triple, a matrix a triple of rows, a quaternion a         *)
(* 4-tuple.                                                                *)
(***************************************************************************)
EXTENDS Integers, Sequences, FiniteSets, TLC

\* ------------------------------------------------------------------------
\* Bounds of the model
\* ------------------------------------------------------------------------

\* Number of evaluations (non-held Run ticks and InitializeDerivatives
\* calls) explored in one behaviour.
MaxEvals == 2

\* Number of fractional bits of the fixed-point numbers.
FracBits == 8

\* ------------------------------------------------------------------------
\* double arithmetic
\* ------------------------------------------------------------------------

Scale == 2 ^ FracBits
One == Scale
Inf == 2 ^ 30

Num(n) == n * Scale
\* p/q for a power of two q
Frac(p, q) == (p * Scale) \div q

Abs(x) == IF x < 0 THEN -x ELSE x

\* nearest integer to a / b (b # 0)
RDiv(a, b) ==
  IF b > 0 THEN (2 * a + b) \div (2 * b)
           ELSE (2 * (-a) + (-b)) \div (2 * (-b))

Mul(x, y) == RDiv(x * y, Scale)
Div(x, y) == RDiv(x * Scale, y)

\* ------------------------------------------------------------------------
\* FGColumnVector3, FGMatrix33, FGQuaternion
\* ------------------------------------------------------------------------

Zero3 == <<0, 0, 0>>
Vec(x, y, z) == <<Num(x), Num(y), Num(z)>>

VAdd(u, v) == <<u[1] + v[1], u[2] + v[2], u[3] + v[3]>>
VSub(u, v) == <<u[1] - v[1], u[2] - v[2], u[3] - v[3]>>
\* scalar * vector
VScale(s, v) == <<Mul(s, v[1]), Mul(s, v[2]), Mul(s, v[3])>>
\* vector / scalar
VDiv(v, s) == <<Div(v[1], s), Div(v[2], s), Div(v[3], s)>>
DotProduct(u, v) == Mul(u[1], v[1]) + Mul(u[2], v[2]) + Mul(u[3], v[3])
\* FGColumnVector3::operator*(const FGColumnVector3&) is the cross product
Cross(u, v) ==
  << Mul(u[2], v[3]) - Mul(u[3], v[2]),
     Mul(u[3], v[1]) - Mul(u[1], v[3]),
     Mul(u[1], v[2]) - Mul(u[2], v[1]) >>
\* matrix * vector
MV(m, v) == <<DotProduct(m[1], v), DotProduct(m[2], v), DotProduct(m[3], v)>>

Diag(a, b, c) == << <<a, 0, 0>>, <<0, b, 0>>, <<0, 0, c>> >>
Ident == Diag(One, One, One)
Transpose(m) ==
  << <<m[1][1], m[2][1], m[3][1]>>,
     <<m[1][2], m[2][2], m[3][2]>>,
     <<m[1][3], m[2][3], m[3][3]>> >>
\* a rotation of a quarter turn about the z axis
RotZ == << <<0, One, 0>>, <<-One, 0, 0>>, <<0, 0, One>> >>

\* FGQuaternion(0,0,0) as the lifecycle describes it: a zeroed derivative
QuatZero == <<0, 0, 0, 0>>

\* FGQuaternion::GetQDot: half the product of the quaternion with the
\* angular velocity in quaternion form
GetQDot(q, w) ==
  LET Half == Frac(1, 2) IN
  << Mul(-Half, Mul(q[2], w[1]) + Mul(q[3], w[2]) + Mul(q[4], w[3])),
     Mul(Half, Mul(q[1], w[1]) - Mul(q[4], w[2]) + Mul(q[3], w[3])),
     Mul(Half, Mul(q[4], w[1]) + Mul(q[1], w[2]) - Mul(q[2], w[3])),
     Mul(Half, Mul(q[2], w[2]) - Mul(q[3], w[1]) + Mul(q[1], w[3])) >>

\* FGJSBBase::Constrain
Constrain(min, value, max) ==
  IF value < min THEN min ELSE IF value > max THEN max ELSE value

\* ------------------------------------------------------------------------
\* Inputs (struct Inputs `in`, filled by the executive before each call)
\* ------------------------------------------------------------------------

\* eGravType
gtStandard == 0
gtWGS84 == 1
\* the values the property simulation/gravity-model can be given: the two
\* models and a number that names neither
GravTypes == {gtStandard, gtWGS84, 2}

\* the vehicle at rest on a non-rotating planet
InRest ==
  [ Mass |-> Num(1),
    J |-> Diag(Num(1), Num(2), Num(4)),
    Jinv |-> Diag(Num(1), Frac(1, 2), Frac(1, 4)),
    Force |-> Zero3,
    Moment |-> Zero3,
    vPQR |-> Zero3,
    vPQRi |-> Zero3,
    vUVW |-> Zero3,
    vInertialPosition |-> Vec(4, 0, 0),
    vOmegaPlanet |-> Zero3,
    Ti2b |-> Ident,
    Tb2i |-> Ident,
    Tec2b |-> Ident,
    Tl2b |-> Ident,
    GAccel |-> Num(32),
    J2Grav |-> Vec(0, 0, 30),
    qAttitudeECI |-> <<One, 0, 0, 0>>,
    DeltaT |-> 0 ]

\* the vehicle standing still on a rotating planet: no rate relative to the
\* planet, so its inertial rate is the planet's
InEarth ==
  [ InRest EXCEPT !.vOmegaPlanet = Vec(0, 0, 1),
                  !.vPQRi = Vec(0, 0, 1),
                  !.DeltaT = Frac(1, 8) ]

\* a heavier vehicle, turned a quarter turn, under load and moving
InLoaded ==
  [ InRest EXCEPT !.Mass = Num(2),
                  !.J = Diag(Num(2), Num(4), Num(8)),
                  !.Jinv = Diag(Frac(1, 2), Frac(1, 4), Frac(1, 8)),
                  !.Force = Vec(4, 0, -8),
                  !.Moment = Vec(0, 2, 0),
                  !.vPQR = Vec(0, 1, 2),
                  !.vPQRi = Vec(0, 1, 2),
                  !.vUVW = Vec(2, 0, 1),
                  !.Ti2b = RotZ,
                  !.Tb2i = Transpose(RotZ),
                  !.Tec2b = RotZ,
                  !.Tl2b = RotZ,
                  !.J2Grav = Vec(30, 0, 0),
                  !.qAttitudeECI = <<0, One, 0, 0>>,
                  !.DeltaT = Frac(1, 8) ]

\* a strong side force
InSlide ==
  [ InRest EXCEPT !.Force = Vec(0, -16, 0) ]

\* ------------------------------------------------------------------------
\* Ground reactions: the Lagrange multipliers of the gears, and the terrain
\* ------------------------------------------------------------------------

LM(f, m, lo, hi, on) ==
  [ForceJacobian |-> f, MomentJacobian |-> m, Min |-> lo, Max |-> hi, active |-> on]

\* the normal reaction of a gear: pushes up, never pulls
Normal(on) == LM(Vec(0, 0, -1), Zero3, 0, Inf, on)
\* a friction row coupled to the normal one, limited in both directions
Friction(on) == LM(Vec(1, 0, -1), Zero3, Num(-4), Num(4), on)
\* a friction row with a lever arm and a tight limit
Roll(on) == LM(Vec(1, 0, 0), Vec(1, 0, 0), Num(-1), Num(1), on)
\* two rows that are nearly parallel
SkewA == LM(Vec(1, 0, 0), Zero3, -Inf, Inf, TRUE)
SkewB == LM(<<Num(1), Frac(1, 4), 0>>, Zero3, -Inf, Inf, TRUE)
\* a row whose bounds are crossed
Crossed == LM(Vec(0, 1, 0), Zero3, Num(2), Num(1), TRUE)

\* a multiplier no gear has set up yet
Unset == [ForceJacobian |-> Zero3, MomentJacobian |-> Zero3,
          Min |-> 0, Max |-> 0, active |-> FALSE, value |-> 0]

\* ------------------------------------------------------------------------
\* Frames: what the executive hands over before a call, the ground
\* reactions having run and the inputs having been loaded
\* ------------------------------------------------------------------------

Frame(i, rows, tv, tw) ==
  [in |-> i, rows |-> rows, terrainVel |-> tv, terrainAngularVel |-> tw]

Frames ==
  { \* at rest on one gear
    Frame(InRest, <<Normal(TRUE), Friction(FALSE)>>, Zero3, Zero3),
    \* airborne over moving terrain, the planet turning
    Frame(InEarth, <<Normal(FALSE), Friction(FALSE)>>, Vec(1, 0, 0), Zero3),
    \* the heavier vehicle under load on one gear
    Frame(InLoaded, <<Normal(TRUE), Friction(FALSE)>>, Zero3, Zero3),
    \* rolling under load over moving terrain
    Frame(InLoaded, <<Normal(TRUE), Friction(TRUE)>>, Vec(1, 0, 0), Zero3),
    \* one gear only, tightly limited, on turning terrain
    Frame(InLoaded, <<Roll(TRUE), Roll(FALSE)>>, Zero3, Vec(0, 0, 1)),
    \* pushed sideways against two nearly parallel rows
    Frame(InSlide, <<SkewA, SkewB>>, Zero3, Zero3),
    \* the second gear only, its bounds crossed
    Frame(InRest, <<Normal(FALSE), Crossed>>, Zero3, Zero3) }

\* ------------------------------------------------------------------------
\* State
\* ------------------------------------------------------------------------

VARIABLES
  in,            \* the inputs
  rate,          \* FGModel::rate
  gravType,      \* the gravity model, tied to simulation/gravity-model
  vPQRdot, vPQRidot, vUVWdot, vUVWidot, vGravAccel, vBodyAccel, vQtrndot,
  multipliers,   \* the ground reactions' Lagrange multipliers, in gear order
  terrain,       \* the ground callback's terrain velocities
  steps,         \* the statements of the running call still to execute
  call,          \* the entry point called last, with its argument and
                 \* what its first statement returned
  log,           \* statements executed, hooks run and signals sent by the
                 \* last evaluation
  pgs,           \* the resolver's locals: warm start and the sweeps' norms
  evals          \* evaluations so far

derivs ==
  <<vPQRdot, vPQRidot, vUVWdot, vUVWidot, vGravAccel, vBodyAccel, vQtrndot>>
vars ==
  <<in, rate, gravType, vPQRdot, vPQRidot, vUVWdot, vUVWidot, vGravAccel,
    vBodyAccel, vQtrndot, multipliers, terrain, steps, call, log, pgs, evals>>

Idle == steps = <<>>

Called(name, holding, skipped) ==
  [name |-> name, Holding |-> holding, skipped |-> skipped]

\* the constructor; FGModel starts with rate 1 and the multipliers at zero
Init ==
  /\ in = InRest
  /\ rate = 1
  /\ gravType = gtWGS84
  /\ vPQRdot = Zero3
  /\ vPQRidot = Zero3
  /\ vUVWdot = Zero3
  /\ vUVWidot = Zero3
  /\ vGravAccel = Zero3
  /\ vBodyAccel = Zero3
  /\ vQtrndot = QuatZero
  /\ multipliers = <<Unset, Unset>>
  /\ terrain = [terrainVel |-> Zero3, terrainAngularVel |-> Zero3]
  /\ steps = <<>>
  /\ call = Called("FGAccelerations", FALSE, FALSE)
  /\ log = <<>>
  /\ pgs = [lambda0 |-> <<>>, norms |-> <<>>]
  /\ evals = 0

\* ------------------------------------------------------------------------
\* The environment: executive, ground reactions, property tree
\* ------------------------------------------------------------------------

\* the ground reactions recompute Jacobians, bounds and which gears touch
\* (the multiplier values stay), and the executive loads the inputs
PrepareFrame(f) ==
  /\ Idle
  /\ evals < MaxEvals
  /\ in' = f.in
  /\ multipliers' = [k \in DOMAIN multipliers |->
        [ForceJacobian |-> f.rows[k].ForceJacobian,
         MomentJacobian |-> f.rows[k].MomentJacobian,
         Min |-> f.rows[k].Min, Max |-> f.rows[k].Max,
         active |-> f.rows[k].active,
         value |-> multipliers[k].value]]
  /\ terrain' = [terrainVel |-> f.terrainVel,
                 terrainAngularVel |-> f.terrainAngularVel]
  /\ UNCHANGED <<rate, gravType, derivs, steps, call, log, pgs, evals>>

\* a write to the property simulation/gravity-model
SetGravityModel(g) ==
  /\ Idle
  /\ evals < MaxEvals
  /\ gravType' = g
  /\ UNCHANGED <<in, rate, derivs, multipliers, terrain, steps, call, log,
                 pgs, evals>>

\* ------------------------------------------------------------------------
\* InitModel
\* ------------------------------------------------------------------------

InitModel ==
  /\ Idle
  /\ vPQRidot' = Zero3
  /\ vUVWidot' = Zero3
  /\ vGravAccel' = Zero3
  /\ vBodyAccel' = Zero3
  /\ vQtrndot' = QuatZero
  /\ call' = Called("InitModel", FALSE, FALSE)
  /\ UNCHANGED <<in, rate, gravType, vPQRdot, vUVWdot, multipliers, terrain,
                 steps, log, pgs, evals>>

\* ------------------------------------------------------------------------
\* Run and InitializeDerivatives
\* ------------------------------------------------------------------------

\* the statements of Run after its two returns
RunBodyQuatFirst ==
  <<"RunPreFunctions", "CalculatePQRdot", "CalculateQuatdot",
    "CalculateUVWdot", "ResolveFrictionForces", "RunPostFunctions">>
RunBody ==
  <<"RunPreFunctions", "CalculatePQRdot", "CalculateUVWdot",
    "CalculateQuatdot", "ResolveFrictionForces", "RunPostFunctions">>

InitializeBody ==
  <<"CalculatePQRdot", "CalculateUVWdot", "CalculateQuatdot",
    "ResolveFrictionForces">>

\* FGModel::Run(Holding) tells the model whether this frame is not its turn
FGModelRun == BOOLEAN

\* what Run goes on to execute: nothing when FGModel::Run says so, nothing
\* when holding
RunStepsNoHold(skip, holding) == IF skip THEN <<>> ELSE RunBody
RunSteps(skip, holding) ==
  IF skip THEN <<>> ELSE IF holding THEN <<>> ELSE RunBody

Run(holding) ==
  /\ Idle
  /\ \E skip \in FGModelRun :
       /\ call' = Called("Run", holding, skip)
       /\ steps' = RunSteps(skip, holding)
  /\ IF steps' = <<>>
       THEN UNCHANGED <<log, pgs, evals>>
       ELSE /\ evals < MaxEvals
            /\ evals' = evals + 1
            /\ log' = <<>>
            /\ pgs' = [lambda0 |-> <<>>, norms |-> <<>>]
  /\ UNCHANGED <<in, rate, gravType, derivs, multipliers, terrain>>

InitializeDerivatives ==
  /\ Idle
  /\ evals < MaxEvals
  /\ evals' = evals + 1
  /\ steps' = InitializeBody
  /\ call' = Called("InitializeDerivatives", FALSE, FALSE)
  /\ log' = <<>>
  /\ pgs' = [lambda0 |-> <<>>, norms |-> <<>>]
  /\ UNCHANGED <<in, rate, gravType, derivs, multipliers, terrain>>

\* the statement `name` is the next one of the running call
At(name) == steps # <<>> /\ Head(steps) = name

RunPreFunctions ==
  /\ At("RunPreFunctions")
  /\ steps' = Tail(steps)
  /\ log' = Append(log, "RunPreFunctions")
  /\ UNCHANGED <<in, rate, gravType, derivs, multipliers, terrain, call, pgs,
                 evals>>

RunPostFunctions ==
  /\ At("RunPostFunctions")
  /\ steps' = Tail(steps)
  /\ log' = Append(log, "RunPostFunctions")
  /\ UNCHANGED <<in, rate, gravType, derivs, multipliers, terrain, call, pgs,
                 evals>>

\* ------------------------------------------------------------------------
\* Frame kinematics, gravity, attitude derivative
\* ------------------------------------------------------------------------

PQRidot(i) ==
  MV(i.Jinv, VSub(i.Moment, Cross(i.vPQRi, MV(i.J, i.vPQRi))))

PQRdot(i) ==
  VSub(PQRidot(i), Cross(i.vPQRi, MV(i.Ti2b, i.vOmegaPlanet)))

CalculatePQRdot ==
  /\ At("CalculatePQRdot")
  /\ steps' = Tail(steps)
  /\ vPQRidot' = PQRidot(in)
  /\ vPQRdot' = PQRdot(in)
  /\ log' = Append(log, "CalculatePQRdot")
  /\ UNCHANGED <<in, rate, gravType, vUVWdot, vUVWidot, vGravAccel,
                 vBodyAccel, vQtrndot, multipliers, terrain, call, pgs,
                 evals>>

CalculateQuatdot ==
  /\ At("CalculateQuatdot")
  /\ steps' = Tail(steps)
  /\ vQtrndot' = GetQDot(in.qAttitudeECI, in.vPQRi)
  /\ log' = Append(log, "CalculateQuatdot")
  /\ UNCHANGED <<in, rate, gravType, vPQRdot, vPQRidot, vUVWdot, vUVWidot,
                 vGravAccel, vBodyAccel, multipliers, terrain, call, pgs,
                 evals>>

BodyAccel(i) == VDiv(i.Force, i.Mass)

\* the switch on gravType: a value that is neither case assigns nothing
GravAccel(g, i, old) ==
  CASE g = gtStandard -> MV(i.Tl2b, <<0, 0, i.GAccel>>)
    [] g = gtWGS84 -> MV(i.Tec2b, i.J2Grav)
    [] OTHER -> old

\* vUVWdot before gravity is added: Coriolis and centripetal terms
UVWdotNoGravity(i) ==
  VSub(VSub(BodyAccel(i),
            Cross(VAdd(i.vPQR, VScale(Num(2), MV(i.Ti2b, i.vOmegaPlanet))),
                  i.vUVW)),
       MV(i.Ti2b, Cross(i.vOmegaPlanet,
                        Cross(i.vOmegaPlanet, i.vInertialPosition))))

UVWdotGravityTwice(i, grav) == VAdd(VAdd(UVWdotNoGravity(i), grav), grav)
UVWdot(i, grav) == VAdd(UVWdotNoGravity(i), grav)

UVWidot(i, grav) == MV(i.Tb2i, VAdd(BodyAccel(i), grav))

CalculateUVWdot ==
  /\ At("CalculateUVWdot")
  /\ steps' = Tail(steps)
  /\ vBodyAccel' = BodyAccel(in)
  /\ vGravAccel' = GravAccel(gravType, in, vGravAccel)
  /\ vUVWdot' = UVWdot(in, vGravAccel')
  /\ vUVWidot' = UVWidot(in, vGravAccel')
  /\ log' = Append(log, "CalculateUVWdot")
  /\ UNCHANGED <<in, rate, gravType, vPQRdot, vPQRidot, vQtrndot,
                 multipliers, terrain, call, pgs, evals>>

\* ------------------------------------------------------------------------
\* ResolveFrictionForces: Lagrange multipliers by projected Gauss-Seidel
\* ------------------------------------------------------------------------

\* MultiplierIterator: the multipliers of the gears in contact, in gear order
MultiplierIterator(m) ==
  LET InContact(k) == m[k].active
  IN  SelectSeq([k \in 1..Len(m) |-> k], InContact)

\* the rows the first loop collects
Collect(m) ==
  LET idx == MultiplierIterator(m)
  IN  [k \in 1..Len(idx) |-> m[idx[k]]]

\* in.DeltaT * rate for Run, 0. for InitializeDerivatives
TimeStep(caller, i, r) == IF caller = "Run" THEN i.DeltaT * r ELSE 0

\* J*M^-1*J^T, the upper triangle computed and the lower one copied from it
Entry(rows, i, r, c) ==
  DotProduct(rows[r].ForceJacobian,
             VScale(Div(One, i.Mass), rows[c].ForceJacobian))
  + DotProduct(rows[r].MomentJacobian, MV(i.Jinv, rows[c].MomentJacobian))

Assemble(rows, i) ==
  [r \in 1..Len(rows) |->
    [c \in 1..Len(rows) |->
      IF c < r THEN Entry(rows, i, c, r) ELSE Entry(rows, i, r, c)]]

\* the rate the contact forces have to resist: the derivative and, for a
\* positive time step, the movement relative to the ground
Target(xdot, x, terrainX, tec2b, dt) ==
  IF dt > 0 THEN VAdd(xdot, VDiv(VSub(x, MV(tec2b, terrainX)), dt)) ELSE xdot

RhsNotNormalised(row, vdot, wdot, d) ==
  -(DotProduct(row.ForceJacobian, vdot) + DotProduct(row.MomentJacobian, wdot))
Rhs(row, vdot, wdot, d) ==
  Mul(-(DotProduct(row.ForceJacobian, vdot)
        + DotProduct(row.MomentJacobian, wdot)), d)

\* the linear system prepared for Gauss-Seidel: every line divided by a[i,i]
System(rows, i, vdot, wdot) ==
  LET a0 == Assemble(rows, i)
      d == [r \in 1..Len(rows) |-> Div(One, a0[r][r])]
  IN  [ n |-> Len(rows),
        a |-> [r \in 1..Len(rows) |->
                 [c \in 1..Len(rows) |-> Mul(a0[r][c], d[r])]],
        rhs |-> [r \in 1..Len(rows) |-> Rhs(rows[r], vdot, wdot, d[r])],
        lambdaMin |-> [r \in 1..Len(rows) |-> rows[r].Min],
        lambdaMax |-> [r \in 1..Len(rows) |-> rows[r].Max] ]

MaxIterOneMore == 50 + 1
MaxIter == 50

\* norm < 1E-5
TolInv == 100000
Converged(norm) == norm < Scale /\ norm * TolInv < Scale

\* dlambda = rhs[i] - sum over j <= upto of a[i,j]*lambda[j]
RECURSIVE Residual(_, _, _, _)
Residual(sys, lambda, r, upto) ==
  IF upto = 0 THEN sys.rhs[r]
  ELSE Residual(sys, lambda, r, upto - 1) - Mul(sys.a[r][upto], lambda[upto])

UpdateLambdaUnprojected(lo, lambda0, dlambda, hi) == lambda0 + dlambda
UpdateLambda(lo, lambda0, dlambda, hi) == Constrain(lo, lambda0 + dlambda, hi)

\* one sweep over the rows from r on, in place
RECURSIVE Sweep(_, _, _, _)
Sweep(sys, lambda, norm, r) ==
  IF r > sys.n THEN [lambda |-> lambda, norm |-> norm]
  ELSE LET lambda0 == lambda[r]
           new == UpdateLambda(sys.lambdaMin[r], lambda0,
                               Residual(sys, lambda, r, sys.n),
                               sys.lambdaMax[r])
       IN  Sweep(sys, [lambda EXCEPT ![r] = new],
                 norm + Abs(new - lambda0), r + 1)

\* the sweeps from number iter on; norms collects every sweep's norm
RECURSIVE Iterate(_, _, _, _)
Iterate(sys, lambda, norms, iter) ==
  IF ~(iter < MaxIter) THEN [lambda |-> lambda, norms |-> norms]
  ELSE LET s == Sweep(sys, lambda, 0, 1)
       IN  IF Converged(s.norm)
             THEN [lambda |-> s.lambda, norms |-> Append(norms, s.norm)]
             ELSE Iterate(sys, s.lambda, Append(norms, s.norm), iter + 1)

\* the multipliers the solver ends with, and its sweeps, for the gears in
\* contact of m
Solve(m, i, uvwdot, pqrdot, terr, dt) ==
  LET rows == Collect(m)
      vdot == Target(uvwdot, i.vUVW, terr.terrainVel, i.Tec2b, dt)
      wdot == Target(pqrdot, i.vPQR, terr.terrainAngularVel, i.Tec2b, dt)
  IN  Iterate(System(rows, i, vdot, wdot),
              [r \in 1..Len(rows) |-> rows[r].value], <<>>, 0)

\* Fc = sum of lambda[k]*JacF[k], Mc likewise
RECURSIVE Total(_, _, _)
Total(jac, lambda, upto) ==
  IF upto = 0 THEN Zero3
  ELSE VAdd(Total(jac, lambda, upto - 1), VScale(lambda[upto], jac[upto]))

\* the four rate derivatives after the resolver.  ds holds them before.
ResolveRatesAliased(ds, m, i, terr, dt) ==
  LET rows == Collect(m)
      n == Len(rows)
      vdot == Target(ds.vUVWdot, i.vUVW, terr.terrainVel, i.Tec2b, dt)
      wdot == Target(ds.vPQRdot, i.vPQR, terr.terrainAngularVel, i.Tec2b, dt)
      lambda == Solve(m, i, ds.vUVWdot, ds.vPQRdot, terr, dt).lambda
      Fc == Total([r \in 1..n |-> rows[r].ForceJacobian], lambda, n)
      Mc == Total([r \in 1..n |-> rows[r].MomentJacobian], lambda, n)
      accel == VScale(Div(One, i.Mass), Fc)
      omegadot == MV(i.Jinv, Mc)
  IN  [ vUVWdot |-> VAdd(vdot, accel),
        vUVWidot |-> VAdd(ds.vUVWidot, MV(i.Tb2i, accel)),
        vPQRdot |-> VAdd(wdot, omegadot),
        vPQRidot |-> VAdd(ds.vPQRidot, omegadot) ]
ResolveRates(ds, m, i, terr, dt) ==
  LET rows == Collect(m)
      n == Len(rows)
      lambda == Solve(m, i, ds.vUVWdot, ds.vPQRdot, terr, dt).lambda
      Fc == Total([r \in 1..n |-> rows[r].ForceJacobian], lambda, n)
      Mc == Total([r \in 1..n |-> rows[r].MomentJacobian], lambda, n)
      accel == VScale(Div(One, i.Mass), Fc)
      omegadot == MV(i.Jinv, Mc)
  IN  IF n = 0 THEN ds
      ELSE [ vUVWdot |-> VAdd(ds.vUVWdot, accel),
             vUVWidot |-> VAdd(ds.vUVWidot, MV(i.Tb2i, accel)),
             vPQRdot |-> VAdd(ds.vPQRdot, omegadot),
             vPQRidot |-> VAdd(ds.vPQRidot, omegadot) ]

\* the second loop: lambda[i++] into the gears in contact, in gear order
SaveMultipliersEveryGear(m, lambda) ==
  [k \in 1..Len(m) |->
    IF k <= Len(lambda) THEN [m[k] EXCEPT !.value = lambda[k]] ELSE m[k]]
SaveMultipliers(m, lambda) ==
  LET idx == MultiplierIterator(m)
  IN  [k \in 1..Len(m) |->
        IF \E p \in 1..Len(idx) : idx[p] = k
          THEN [m[k] EXCEPT
                  !.value = lambda[CHOOSE p \in 1..Len(idx) : idx[p] = k]]
          ELSE m[k]]

\* what a resolve does besides the arithmetic, in order
ResolveEvents(n) ==
  IF n = 0 THEN <<"ResolveFrictionForces">>
  ELSE <<"ResolveFrictionForces", "value", "UpdateForcesAndMoments">>

ResolveFrictionForces ==
  /\ At("ResolveFrictionForces")
  /\ steps' = Tail(steps)
  /\ LET dt == TimeStep(call.name, in, rate)
         n == Len(Collect(multipliers))
         ds == [vUVWdot |-> vUVWdot, vUVWidot |-> vUVWidot,
                vPQRdot |-> vPQRdot, vPQRidot |-> vPQRidot]
         new == ResolveRates(ds, multipliers, in, terrain, dt)
         sol == Solve(multipliers, in, vUVWdot, vPQRdot, terrain, dt)
     IN  /\ vUVWdot' = new.vUVWdot
         /\ vUVWidot' = new.vUVWidot
         /\ vPQRdot' = new.vPQRdot
         /\ vPQRidot' = new.vPQRidot
         /\ IF n = 0
              THEN UNCHANGED <<multipliers, pgs>>
              ELSE /\ multipliers' = SaveMultipliers(multipliers, sol.lambda)
                   /\ pgs' = [lambda0 |-> [r \in 1..n |->
                                            Collect(multipliers)[r].value],
                              norms |-> sol.norms]
         /\ log' = log \o ResolveEvents(n)
  /\ UNCHANGED <<in, rate, gravType, vGravAccel, vBodyAccel, vQtrndot,
                 terrain, call, evals>>

\* ------------------------------------------------------------------------

Next ==
  \/ \E f \in Frames : PrepareFrame(f)
  \/ \E g \in GravTypes : SetGravityModel(g)
  \/ InitModel
  \/ \E holding \in BOOLEAN : Run(holding)
  \/ InitializeDerivatives
  \/ RunPreFunctions
  \/ CalculatePQRdot
  \/ CalculateUVWdot
  \/ CalculateQuatdot
  \/ ResolveFrictionForces
  \/ RunPostFunctions

Spec == Init /\ [][Next]_vars

\* ------------------------------------------------------------------------
\* Properties
\* ------------------------------------------------------------------------

\* the step that executes ResolveFrictionForces
ResolveStep == At("ResolveFrictionForces") /\ steps' = Tail(steps)

\* the gears in contact and their number
ActiveGears == MultiplierIterator(multipliers)
NActive == Len(ActiveGears)

BoundsOrdered ==
  \A k \in DOMAIN multipliers :
    multipliers[k].active => multipliers[k].Min <= multipliers[k].Max

\* the statements logged by a call of the resolver that did not return early
SolvedAndSignalled ==
  <<"ResolveFrictionForces", "value", "UpdateForcesAndMoments">>

\* C1: after any call of ResolveFrictionForces with at least one gear in
\* contact and Min <= Max on every row, whatever the time step and the
\* stored multipliers, every multiplier written back lies within its bounds.
C1_WrittenBackWithinBounds ==
  [][ (ResolveStep /\ NActive >= 1 /\ BoundsOrdered)
        => \A k \in DOMAIN multipliers :
             multipliers[k].active
               => /\ multipliers[k].Min <= multipliers'[k].value
                  /\ multipliers'[k].value <= multipliers[k].Max ]_vars

\* a resolve has just ended whose warm start lay above its upper bound
C1_Witness ==
  /\ At("RunPostFunctions")
  /\ NActive >= 1
  /\ BoundsOrdered
  /\ \E r \in 1..NActive :
       /\ pgs.lambda0[r] > multipliers[ActiveGears[r]].Max
       /\ multipliers[ActiveGears[r]].value <= multipliers[ActiveGears[r]].Max
       /\ multipliers[ActiveGears[r]].value >= multipliers[ActiveGears[r]].Min

\* C2: a call of ResolveFrictionForces with no gear in contact, for any time
\* step, leaves every field of the derivative state as it was.
C2_NoContactLeavesDerivatives ==
  [][ (ResolveStep /\ NActive = 0) => UNCHANGED derivs ]_vars

\* a resolve without contact has just ended, with a positive time step and
\* the vehicle moving relative to the terrain
C2_Witness ==
  /\ At("RunPostFunctions")
  /\ NActive = 0
  /\ TimeStep(call.name, in, rate) > 0
  /\ in.vUVW # MV(in.Tec2b, terrain.terrainVel)
  /\ vUVWdot # Zero3

\* C3: Run called while holding computes nothing: derivative state and
\* multipliers keep their values, no statement of the body runs (no hook,
\* no signal to the ground reactions).
C3_HoldingRunDoesNothing ==
  [][ Run(TRUE) => /\ UNCHANGED derivs
                   /\ UNCHANGED multipliers
                   /\ UNCHANGED log
                   /\ steps' = <<>> ]_vars

\* Run has returned from a holding call that was its turn, after an earlier
\* evaluation
C3_Witness ==
  /\ Idle
  /\ call = Called("Run", TRUE, FALSE)
  /\ evals >= 1
  /\ vUVWdot # Zero3
  /\ log # <<>>

\* the contact accelerations that the multipliers now stored amount to
StoredAccel ==
  LET rows == Collect(multipliers)
      n == Len(rows)
  IN  VScale(Div(One, in.Mass),
             Total([r \in 1..n |-> rows[r].ForceJacobian],
                   [r \in 1..n |-> rows[r].value], n))

StoredOmegadot ==
  LET rows == Collect(multipliers)
      n == Len(rows)
  IN  MV(in.Jinv,
         Total([r \in 1..n |-> rows[r].MomentJacobian],
               [r \in 1..n |-> rows[r].value], n))

\* C4: with exactly one gear in contact and dt = 0, whatever the stored
\* multiplier, the multiplier written back is
\* clamp(-(JacF.vUVWdot + JacM.vPQRdot) / (JacF.JacF/mass + JacM.(Jinv*JacM)),
\* Min, Max) on the derivatives before contact; when that value is not
\* clamped, JacF.vUVWdot + JacM.vPQRdot is zero on the derivatives after.
C4_SingleContactCancels ==
  [][ (ResolveStep /\ NActive = 1 /\ TimeStep(call.name, in, rate) = 0)
        => LET k == ActiveGears[1]
               JacF == multipliers[k].ForceJacobian
               JacM == multipliers[k].MomentJacobian
               relAccel == DotProduct(JacF, vUVWdot) + DotProduct(JacM, vPQRdot)
               effMass == Div(DotProduct(JacF, JacF), in.Mass)
                          + DotProduct(JacM, MV(in.Jinv, JacM))
               exact == Div(-relAccel, effMass)
           IN  /\ multipliers'[k].value
                    = Constrain(multipliers[k].Min, exact, multipliers[k].Max)
               /\ (multipliers[k].Min <= exact /\ exact <= multipliers[k].Max)
                    => DotProduct(JacF, vUVWdot') + DotProduct(JacM, vPQRdot')
                         = 0 ]_vars

\* at rest under constant gravity g on one gear pushing up, bounds
\* [0, +inf), dt = 0, the stored multiplier having been something else: the
\* multiplier is m*g and the body z derivative is zero
C4_Witness ==
  /\ At("RunPostFunctions")
  /\ NActive = 1
  /\ TimeStep(call.name, in, rate) = 0
  /\ gravType = gtStandard
  /\ multipliers[1].active
  /\ multipliers[1].ForceJacobian = Vec(0, 0, -1)
  /\ multipliers[1].Min = 0
  /\ multipliers[1].Max = Inf
  /\ in.Force = Zero3
  /\ pgs.lambda0[1] # multipliers[1].value
  /\ multipliers[1].value = Mul(in.Mass, in.GAccel)
  /\ vUVWdot[3] = 0

\* norm < 1E-5, for a norm in units of 1/Scale
BelowTolerance(norm) == norm < Scale /\ norm * 100000 < Scale

\* C7: the projected Gauss-Seidel solve does at least 1 and at most 50
\* sweeps; it stops before the 50th exactly when a sweep's sum of absolute
\* changes is below 1e-5; and having used all 50 without meeting the
\* tolerance it goes on, as otherwise, to apply the contact accelerations
\* and to write the multipliers back.
C7_SweepsBounded ==
  [][ (ResolveStep /\ NActive >= 1)
        => LET norms == pgs'.norms
               n == Len(norms)
           IN  /\ 1 <= n /\ n <= 50
               /\ \A s \in 1..(n - 1) : ~BelowTolerance(norms[s])
               /\ n < 50 => BelowTolerance(norms[n])
               /\ log' = log \o SolvedAndSignalled
               /\ vUVWdot' = VAdd(vUVWdot, StoredAccel')
               /\ vPQRdot' = VAdd(vPQRdot, StoredOmegadot')
               /\ vUVWidot' = VAdd(vUVWidot, MV(in.Tb2i, StoredAccel'))
               /\ vPQRidot' = VAdd(vPQRidot, StoredOmegadot') ]_vars

\* a resolve has just ended after 50 sweeps, the last of them still above
\* the tolerance, and has written back multipliers other than the stored ones
C7_Witness ==
  /\ At("RunPostFunctions")
  /\ Len(pgs.norms) = 50
  /\ ~BelowTolerance(pgs.norms[50])
  /\ \E r \in 1..NActive :
       multipliers[ActiveGears[r]].value # pgs.lambda0[r]
  /\ StoredAccel # Zero3

\* the statements a tick executes, and the same when the resolver returns
\* early
FullTick ==
  <<"RunPreFunctions", "CalculatePQRdot", "CalculateUVWdot",
    "CalculateQuatdot">> \o SolvedAndSignalled \o <<"RunPostFunctions">>
TickWithoutContact ==
  <<"RunPreFunctions", "CalculatePQRdot", "CalculateUVWdot",
    "CalculateQuatdot", "ResolveFrictionForces", "RunPostFunctions">>

\* the step that ends a tick: Run, not holding and its turn, returns
TickEnds == call = Called("Run", FALSE, FALSE) /\ steps # <<>> /\ steps' = <<>>

\* C8 as claimed: on every tick that is not held the statements run in the
\* order rotational-rate derivative, translational-rate derivative,
\* attitude derivative, contact resolver, and last the signal to the ground
\* reactions, issued on every such tick after the multipliers are written
\* back.
C8_SignalOnEveryTick ==
  [][ TickEnds => log' = FullTick ]_vars

\* C8 as amended: the same order on every tick; the multipliers are written
\* back and the signal follows them on every tick that has a gear in
\* contact, and on a tick without contact the resolver returns having done
\* neither.
C8_OrderAndSignalWithContact ==
  [][ TickEnds
        => log' = IF NActive >= 1 THEN FullTick ELSE TickWithoutContact ]_vars

\* a tick with a gear in contact has ended
C8_Witness ==
  /\ Idle
  /\ call = Called("Run", FALSE, FALSE)
  /\ log = FullTick
  /\ NActive >= 1

\* the translational and rotational derivatives have both been computed and
\* the resolver has not run yet
BeforeContact ==
  /\ steps # <<>>
  /\ log # <<>>
  /\ log[Len(log)] = "CalculateUVWdot"
  /\ \E p \in 1..Len(log) : log[p] = "CalculatePQRdot"

\* C9 as claimed: with no applied force, no applied moment and the vehicle
\* not turning, before contact resolution the body translational derivative
\* is the gravity acceleration, under either gravity model, and the
\* rotational derivative is zero.
C9_GravityOnly ==
  (BeforeContact /\ in.Force = Zero3 /\ in.Moment = Zero3 /\ in.vPQR = Zero3)
    => vUVWdot = vGravAccel /\ vPQRdot = Zero3

\* C9 as amended: the same, the planet not turning either, so that neither
\* rate of the vehicle, relative to the planet or inertial, is other than
\* zero.
C9_GravityOnlyPlanetAtRest ==
  (BeforeContact /\ in.Force = Zero3 /\ in.Moment = Zero3
     /\ in.vPQR = Zero3 /\ in.vPQRi = Zero3 /\ in.vOmegaPlanet = Zero3)
    => vUVWdot = vGravAccel /\ vPQRdot = Zero3 /\ vPQRidot = Zero3

\* the derivatives of a vehicle at rest have been computed under the
\* constant-gravity model, and gravity is not zero
C9_Witness ==
  /\ BeforeContact
  /\ in.Force = Zero3 /\ in.Moment = Zero3
  /\ in.vPQR = Zero3 /\ in.vPQRi = Zero3 /\ in.vOmegaPlanet = Zero3
  /\ gravType = gtStandard
  /\ vUVWdot = <<0, 0, in.GAccel>>
  /\ in.GAccel # 0

\* C10: a call of the resolver changes nothing of a multiplier but its
\* value, and writes the solver's i-th multiplier to the i-th gear in
\* contact, in the order in which it collected them.
C10_OnlyValuesInOrder ==
  [][ ResolveStep
        => LET sol == Solve(multipliers, in, vUVWdot, vPQRdot, terrain,
                            TimeStep(call.name, in, rate))
           IN  /\ DOMAIN multipliers' = DOMAIN multipliers
               /\ \A k \in DOMAIN multipliers :
                    /\ multipliers'[k].ForceJacobian = multipliers[k].ForceJacobian
                    /\ multipliers'[k].MomentJacobian
                         = multipliers[k].MomentJacobian
                    /\ multipliers'[k].Min = multipliers[k].Min
                    /\ multipliers'[k].Max = multipliers[k].Max
                    /\ multipliers'[k].active = multipliers[k].active
                    /\ ~multipliers[k].active
                         => multipliers'[k].value = multipliers[k].value
               /\ \A r \in 1..NActive :
                    multipliers'[ActiveGears[r]].value = sol.lambda[r] ]_vars

\* a resolve has just ended with the second gear only in contact, whose
\* multiplier it changed
C10_Witness ==
  /\ At("RunPostFunctions")
  /\ ActiveGears = <<2>>
  /\ multipliers[2].value # pgs.lambda0[1]
  /\ multipliers[2].value # multipliers[1].value

\* the step that ends an evaluation: the last statement of a Run that was
\* not held, or of InitializeDerivatives
EvaluationEnds == steps # <<>> /\ steps' = <<>>

\* every field holds what this evaluation's inputs and multipliers give
Consistent ==
  /\ vBodyAccel = BodyAccel(in)
  /\ vGravAccel \in {GravAccel(gtStandard, in, vGravAccel),
                     GravAccel(gtWGS84, in, vGravAccel)}
  /\ vQtrndot = GetQDot(in.qAttitudeECI, in.vPQRi)
  /\ vPQRidot = VAdd(PQRidot(in), StoredOmegadot)
  /\ vPQRdot = VAdd(PQRdot(in), StoredOmegadot)
  /\ vUVWdot = VAdd(UVWdot(in, vGravAccel), StoredAccel)
  /\ vUVWidot = VAdd(UVWidot(in, vGravAccel), MV(in.Tb2i, StoredAccel))

\* C5: after every completed Run that was not held and every
\* InitializeDerivatives, each field of the derivative state holds the value
\* computed from that evaluation's inputs and none keeps a value of an
\* earlier one, whatever the gravity-model selector has been set to.
C5_NeverTorn ==
  [][ EvaluationEnds => Consistent' ]_vars

\* C6: after InitModel, called in any state, every field of the derivative
\* state is zero.
C6_InitModelZeroesAll ==
  call.name = "InitModel"
    => /\ vPQRdot = Zero3
       /\ vPQRidot = Zero3
       /\ vUVWdot = Zero3
       /\ vUVWidot = Zero3
       /\ vGravAccel = Zero3
       /\ vBodyAccel = Zero3
       /\ vQtrndot = QuatZero

====
